---------------------------- MODULE Spec2Model ----------------------------
(***************************************************************************)
(* Model of data.py: a CSV profiler.  Data.__init__ reads the rows of a    *)
(* file, splits them into valid and invalid rows and builds one Column per *)
(* header; Data.clean replaces placeholder cells by ''; Data.analyse       *)
(* computes, per column, the most common values, the empty flag, the type, *)
(* the outliers and the analysis object.                                   *)
(*                                                                         *)
(* A cell (a Python str) is a sequence of one-character strings, so that   *)
(* the two regular expressions, str.lower and eval are computed on the     *)
(* characters.  A Python exception that leaves a method is recorded in err.*)
(*                                                                         *)
(* A local variable of the code that is read more than once is bound by    *)
(* CHOOSE r \in { e(x) : x \in {v} } : TRUE, which evaluates v once.        *)
(***************************************************************************)
EXTENDS Integers, Sequences, FiniteSets, TLC

VARIABLES csv_file, pc, raw_data, headers, valid_rows, invalid_rows,
          columns, calls, err

vars == <<csv_file, pc, raw_data, headers, valid_rows, invalid_rows,
          columns, calls, err>>

-----------------------------------------------------------------------------
(* Bounds of the model. *)

\* longest generated column
MaxRows == 17
\* longest column of the two-column files
MaxPairRows == 10
\* most rows of a file whose rows differ in field count
MaxRagged == 3
\* most calls of clean/analyse on one Data object
MaxCalls == 3

-----------------------------------------------------------------------------
(* Config, data.py lines 12-15. *)

\* threshold = 0.9, kept as the fraction 9/10
ThresholdNum == 9
ThresholdDen == 10

\* Counter.most_common(15)
TopN == 15

\* len(self.most_common) <= 2
BoolLimit == 2

\* len(self.most_common) < 10
EnumLimit == 10

\* invalid_values = ['-', '*', '_']
invalid_values == { <<"-">>, <<"*">>, <<"_">> }

Digits == {"0", "1", "2", "3", "4", "5", "6", "7", "8", "9"}

AllDigits(s, lo, hi) == \A i \in lo..hi : s[i] \in Digits

\* '$' matches at the end of the string and also just before a newline that
\* ends the string: the candidates the anchored body may have to cover.
DollarCandidates(s) ==
    {s} \cup (IF Len(s) >= 1 /\ s[Len(s)] = "\n"
              THEN {SubSeq(s, 1, Len(s) - 1)} ELSE {})

\* body of re_float:  \d*?\.\d+
FloatBody(t) ==
    \E p \in 1..Len(t) :
        /\ t[p] = "."
        /\ AllDigits(t, 1, p - 1)
        /\ p < Len(t)
        /\ AllDigits(t, p + 1, Len(t))

\* body of re_int:  [1-9]\d*
IntBody(t) ==
    /\ Len(t) >= 1
    /\ t[1] \in (Digits \ {"0"})
    /\ AllDigits(t, 2, Len(t))

\* re_float.match(value) is not None
re_float(value) == \E t \in DollarCandidates(value) : FloatBody(t)

\* re_int.match(value) is not None
re_int(value) == \E t \in DollarCandidates(value) : IntBody(t)

-----------------------------------------------------------------------------
(* str.lower on the letters. *)

UpperLetters == << "A", "B", "C", "D", "E", "F", "G", "H", "I", "J", "K",
                   "L", "M", "N", "O", "P", "Q", "R", "S", "T", "U", "V",
                   "W", "X", "Y", "Z" >>
LowerLetters == << "a", "b", "c", "d", "e", "f", "g", "h", "i", "j", "k",
                   "l", "m", "n", "o", "p", "q", "r", "s", "t", "u", "v",
                   "w", "x", "y", "z" >>

LowerChar(c) ==
    IF \E i \in 1..26 : UpperLetters[i] = c
    THEN LowerLetters[CHOOSE i \in 1..26 : UpperLetters[i] = c]
    ELSE c

lower(s) == [i \in 1..Len(s) |-> LowerChar(s[i])]

-----------------------------------------------------------------------------
(* eval(i) of NumericalAnalyser.__init__, line 61: the exception it raises *)
(* on a cell, or "none".  Covered: the empty string, decimal integer and   *)
(* point-float literals, names, and single operator characters; a name is  *)
(* bound only if it is True or False.                                      *)

Letters == {LowerLetters[i] : i \in 1..26} \cup {UpperLetters[i] : i \in 1..26}

IsName(t) ==
    /\ Len(t) >= 1
    /\ t[1] \in Letters \cup {"_"}
    /\ \A i \in 2..Len(t) : t[i] \in Letters \cup Digits \cup {"_"}

\* decimalinteger ::= nonzerodigit digit* | "0"+
IsDecimalInteger(t) ==
    /\ Len(t) >= 1
    /\ AllDigits(t, 1, Len(t))
    /\ \/ t[1] # "0"
       \/ \A i \in 1..Len(t) : t[i] = "0"

\* pointfloat ::= [digitpart] fraction | digitpart "."
IsPointFloat(t) ==
    \E p \in 1..Len(t) :
        /\ t[p] = "."
        /\ AllDigits(t, 1, p - 1)
        /\ AllDigits(t, p + 1, Len(t))
        /\ Len(t) >= 2

eval(s) ==
    LET t == IF Len(s) >= 1 /\ s[Len(s)] = "\n"
             THEN SubSeq(s, 1, Len(s) - 1) ELSE s
    IN  IF IsDecimalInteger(t) \/ IsPointFloat(t) THEN "none"
        ELSE IF IsName(t)
             THEN IF t \in { <<"T", "r", "u", "e">>,
                             <<"F", "a", "l", "s", "e">> }
                  THEN "none" ELSE "NameError"
             ELSE "SyntaxError"

-----------------------------------------------------------------------------
(* class Column *)

\* self.analysis = None
NoAnalysis == [cls |-> "None", sample |-> << >>]

\* Column.__init__, lines 94-101.  type '' is the unset type.
Column(header) ==
    [ header      |-> header,
      values      |-> << >>,
      most_common |-> << >>,
      empty       |-> FALSE,
      type        |-> "",
      analysis    |-> NoAnalysis,
      outliers    |-> << >> ]

\* change_misc_values that removes the placeholder cells, as the class
\* docstring words it, instead of replacing them
change_misc_values_removing(values) ==
    SelectSeq(values, LAMBDA v : v \notin invalid_values)

\* Column.change_misc_values, lines 104-111
change_misc_values(values) ==
    [i \in 1..Len(values) |->
        IF values[i] \in invalid_values THEN << >> ELSE values[i]]

\* Column.drop_greater_than, lines 113-114: pass
drop_greater_than(values) == values

\* the positions at which a value of the list occurs for the first time
FirstPositions(values) ==
    {i \in 1..Len(values) : \A j \in 1..(i - 1) : values[j] # values[i]}

\* Counter(values).items(): <<value, count>>, the keys in insertion order
Counter(values) ==
    CHOOSE items \in
        { [k \in 1..Cardinality(F) |->
              CHOOSE item \in
                  { << values[i],
                       Cardinality({r \in 1..Len(values) :
                                       values[r] = values[i]}) >> :
                    i \in {x \in F : Cardinality({y \in F : y < x}) = k - 1} }
                  : TRUE] :
          F \in {FirstPositions(values)} } : TRUE

\* position of items[k] when items is sorted by count, largest first, equal
\* counts in insertion order
Rank(items, k) ==
    1 + Cardinality({j \in 1..Len(items) :
                        \/ items[j][2] > items[k][2]
                        \/ items[j][2] = items[k][2] /\ j < k})

\* the m first entries of items sorted by count
Largest(items, m) ==
    [r \in 1..m |-> items[CHOOSE k \in 1..Len(items) : Rank(items, k) = r]]

\* most_common that forgets to cut the list to n entries
most_common_uncut(values, n) ==
    CHOOSE mc \in
        { Largest(items, Len(items)) : items \in {Counter(values)} } : TRUE

\* Counter.most_common(n): sorted by count, largest first, equal counts in
\* insertion order, cut to n entries
most_common(values, n) ==
    CHOOSE mc \in
        { Largest(items, IF Len(items) < n THEN Len(items) ELSE n) :
          items \in {Counter(values)} } : TRUE

\* count / len(self.values) >= threshold
AtThreshold(count, total) == count * ThresholdDen >= ThresholdNum * total

\* define_type that leaves the missing marker out of the denominator
define_type_skipping_missing(col) ==
    LET present     == SelectSeq(col.values, LAMBDA v : v # << >>)
        float_count == Cardinality({i \in 1..Len(present) :
                                        re_float(present[i])})
        int_count   == Cardinality({i \in 1..Len(present) :
                                        /\ ~ re_float(present[i])
                                        /\ re_int(present[i])})
        boolean     == { <<"t", "r", "u", "e">>, <<"f", "a", "l", "s", "e">> }
    IN  IF AtThreshold(float_count, Len(present)) THEN "Float"
        ELSE IF AtThreshold(int_count, Len(present)) THEN "Integer"
        ELSE IF Len(col.most_common) <= BoolLimit
             THEN IF lower(col.most_common[1][1]) \in boolean
                  THEN "Bool" ELSE col.type
        ELSE IF Len(col.most_common) < EnumLimit THEN "Enum"
        ELSE "String"

\* Column.define_type, lines 126-150; the result is the new self.type
define_type(col) ==
    LET float_count == Cardinality({i \in 1..Len(col.values) :
                                        re_float(col.values[i])})
        int_count   == Cardinality({i \in 1..Len(col.values) :
                                        /\ ~ re_float(col.values[i])
                                        /\ re_int(col.values[i])})
        boolean     == { <<"t", "r", "u", "e">>, <<"f", "a", "l", "s", "e">> }
    IN  IF AtThreshold(float_count, Len(col.values)) THEN "Float"
        ELSE IF AtThreshold(int_count, Len(col.values)) THEN "Integer"
        ELSE IF Len(col.most_common) <= BoolLimit
             THEN IF lower(col.most_common[1][1]) \in boolean
                  THEN "Bool" ELSE col.type
        ELSE IF Len(col.most_common) < EnumLimit THEN "Enum"
        ELSE "String"

\* define_outliers whose Integer branch tests the float pattern
define_outliers_float_only(col) ==
    IF col.type = "Float"
    THEN col.outliers \o SelectSeq(col.values, LAMBDA v : ~ re_float(v))
    ELSE IF col.type = "Integer"
    THEN col.outliers \o SelectSeq(col.values, LAMBDA v : ~ re_float(v))
    ELSE col.outliers

\* Column.define_outliers, lines 152-160; the result is the new self.outliers
define_outliers(col) ==
    IF col.type = "Float"
    THEN col.outliers \o SelectSeq(col.values, LAMBDA v : ~ re_float(v))
    ELSE IF col.type = "Integer"
    THEN col.outliers \o SelectSeq(col.values, LAMBDA v : ~ re_int(v))
    ELSE col.outliers

-----------------------------------------------------------------------------
(* class Analyser and its children.  The statistics are functions of the  *)
(* list handed to the constructor; the analysis object is modelled by its  *)
(* class and that list.                                                    *)

\* analysers = {...}, lines 237-238
analysers == [ String  |-> "StringAnalyser",  Integer |-> "NumericalAnalyser",
               Float   |-> "NumericalAnalyser", Enum  |-> "EnumAnalyser" ]

\* the exception of [eval(i) for i in values], line 61: that of the first
\* value eval fails on
EvalAll(values) ==
    IF \E i \in 1..Len(values) : eval(values[i]) # "none"
    THEN eval(values[CHOOSE i \in 1..Len(values) :
                        /\ eval(values[i]) # "none"
                        /\ \A j \in 1..(i - 1) : eval(values[j]) = "none"])
    ELSE "none"

\* analysers[column.type](column.values): the object and the exception
NewAnalysis(type, values) ==
    IF analysers[type] = "NumericalAnalyser" /\ EvalAll(values) # "none"
    THEN [obj |-> NoAnalysis, exc |-> EvalAll(values)]
    ELSE [obj |-> [cls |-> analysers[type], sample |-> values],
          exc |-> "none"]

-----------------------------------------------------------------------------
(* class Data *)

\* Column.define_most_common, lines 117-124: the column afterwards and the
\* exception; most_common[0] of an empty list raises IndexError after
\* most_common has been assigned
define_most_common(col) ==
    CHOOSE out \in
        { IF Len(mc) = 0
          THEN [col |-> [col EXCEPT !.most_common = mc], exc |-> "IndexError"]
          ELSE [col |-> [col EXCEPT
                           !.most_common = mc,
                           !.empty =
                               IF /\ mc[1][1] = << >>
                                  /\ AtThreshold(mc[1][2], Len(col.values))
                               THEN TRUE ELSE col.empty],
                exc |-> "none"] :
          mc \in {most_common(col.values, TopN)} } : TRUE

\* line 245: column.analysis = analysers[column.type](column.values)
SetAnalysis(col) ==
    CHOOSE out \in
        { IF na.exc # "none" THEN [col |-> col, exc |-> na.exc]
          ELSE [col |-> [col EXCEPT !.analysis = na.obj], exc |-> "none"] :
          na \in {NewAnalysis(col.type, col.values)} } : TRUE

\* lines 243-245, for a column whose type has been defined
OutliersAndAnalysis(col) ==
    CHOOSE out \in
        { IF c4.type \in DOMAIN analysers
          THEN SetAnalysis(c4) ELSE [col |-> c4, exc |-> "none"] :
          c4 \in {[col EXCEPT !.outliers = define_outliers(col)]} } : TRUE

\* lines 241-245, for a column that is not empty
TypeOutliersAndAnalysis(col) ==
    CHOOSE out \in
        { OutliersAndAnalysis(c3) :
          c3 \in {[col EXCEPT !.type = define_type(col)]} } : TRUE

\* body of the loop of Data.analyse, lines 240-245, for one column
AnalyseColumn(col) ==
    CHOOSE out \in
        { IF p.exc # "none" \/ p.col.empty THEN p
          ELSE TypeOutliersAndAnalysis(p.col) :
          p \in {define_most_common(col)} } : TRUE

\* for column in self.columns, line 239, from column i on; an exception
\* ends the loop
RECURSIVE AnalyseLoop(_, _)
AnalyseLoop(cols, i) ==
    IF i > Len(cols) THEN [columns |-> cols, exc |-> "none"]
    ELSE CHOOSE out \in
            { IF r.exc # "none"
              THEN [columns |-> [cols EXCEPT ![i] = r.col], exc |-> r.exc]
              ELSE AnalyseLoop([cols EXCEPT ![i] = r.col], i + 1) :
              r \in {AnalyseColumn(cols[i])} } : TRUE

\* remove_invalid that rejects only the rows shorter than the header
RECURSIVE remove_invalid_short_only(_, _)
remove_invalid_short_only(raw, n) ==
    IF n = 0 THEN [valid_rows |-> << >>, invalid_rows |-> << >>]
    ELSE LET before == remove_invalid_short_only(raw, n - 1)
         IN  IF Len(raw[n]) < Len(raw[1])
             THEN [before EXCEPT
                     !.invalid_rows = Append(@, << n, raw[n] >>)]
             ELSE [before EXCEPT !.valid_rows = Append(@, raw[n])]

\* Data.remove_invalid, lines 200-209, on the first n rows of raw
RECURSIVE remove_invalid(_, _)
remove_invalid(raw, n) ==
    IF n = 0 THEN [valid_rows |-> << >>, invalid_rows |-> << >>]
    ELSE LET before == remove_invalid(raw, n - 1)
         IN  IF Len(raw[n]) # Len(raw[1])
             THEN [before EXCEPT
                     !.invalid_rows = Append(@, << n, raw[n] >>)]
             ELSE [before EXCEPT !.valid_rows = Append(@, raw[n])]

\* Data.create_columns, lines 218-225: the columns, given the header row and
\* valid_rows after pop(0)
create_columns(header, rows) ==
    [i \in 1..Len(header) |->
        [Column(header[i]) EXCEPT
            !.values = [r \in 1..Len(rows) |-> rows[r][i]]]]

-----------------------------------------------------------------------------
(* The files the model reads. *)

Pool ==
    << << >>,
       <<"-">>,
       <<"*">>,
       <<"_">>,
       <<"t", "r", "u", "e">>,
       <<"F", "a", "l", "s", "e">>,
       <<"0">>,
       <<"7">>,
       <<"1", "0">>,
       <<"0", "0", "7">>,
       <<"1", ".", "5">>,
       <<".", "5">>,
       <<"3", ".">>,
       <<"7", "\n">>,
       <<"a">>,
       <<"T", "R", "U", "E">>,
       <<"2", ".", "5", "0">> >>

\* a column of n cells: k times Pool[a], then the pool in order from Pool[b]
ColGen(n, a, k, b) ==
    [r \in 1..n |->
        IF r <= k THEN Pool[a]
        ELSE Pool[((b + r - k - 2) % Len(Pool)) + 1]]

\* k for a column of n cells: no repeated cell, or all cells but the last
\* the same, or all cells the same
Repeats(n) == {0, n - 1, n} \cap (0..n)

OneColumnSources ==
    { << <<<<"h">>>> >> \o [r \in 1..n |-> << ColGen(n, a, k, b)[r] >>] :
        <<n, a, k, b>> \in
            { q \in (0..MaxRows) \X (1..Len(Pool)) \X (0..MaxRows)
                    \X (1..Len(Pool)) : q[3] \in Repeats(q[1]) } }

TwoColumnSources ==
    { << << <<"x">>, <<"y">> >> >> \o
      [r \in 1..n |-> << ColGen(n, a, n - 1, b)[r],
                         ColGen(n, b, n - 1, a)[r] >>] :
        <<n, a, b>> \in (1..MaxPairRows) \X (1..Len(Pool)) \X (1..Len(Pool)) }

RowPool ==
    { << >>,
      << <<"1">> >>,
      << <<"1">>, <<"-">> >>,
      << <<"t", "r", "u", "e">>, <<"1", ".", "5">> >>,
      << <<"a">>, <<"b">>, <<"c">> >> }

RaggedSources ==
    UNION { [1..n -> RowPool] : n \in 0..MaxRagged }

\* header id, score, flag and three rows
ScenarioSource ==
    << << <<"i", "d">>, <<"s", "c", "o", "r", "e">>, <<"f", "l", "a", "g">> >>,
       << <<"1">>, <<"3", ".", "5">>, <<"t", "r", "u", "e">> >>,
       << <<"2">>, <<"-">>, <<"f", "a", "l", "s", "e">> >>,
       << <<"3">>, <<"4", ".", "2", "5">>, <<"t", "r", "u", "e">> >> >>

Sources ==
    OneColumnSources \cup TwoColumnSources \cup RaggedSources
        \cup {ScenarioSource}

-----------------------------------------------------------------------------
(* The state machine. *)

Init ==
    /\ csv_file \in Sources
    /\ pc = "new"
    /\ raw_data = << >>
    /\ headers = << >>
    /\ valid_rows = << >>
    /\ invalid_rows = << >>
    /\ columns = << >>
    /\ calls = << >>
    /\ err = "none"

\* Data.__init__, lines 184-192: read, remove_invalid, create_columns.
\* raw_data[0] of an empty file raises IndexError at line 218 and no object
\* is returned.
Construct ==
    /\ pc = "new"
    /\ raw_data' = csv_file
    /\ \E split \in {remove_invalid(csv_file, Len(csv_file))} :
           IF Len(csv_file) = 0
           THEN /\ pc' = "failed"
                /\ err' = "IndexError"
                /\ valid_rows' = split.valid_rows
                /\ invalid_rows' = split.invalid_rows
                /\ UNCHANGED <<headers, columns>>
           ELSE /\ pc' = "ready"
                /\ err' = "none"
                /\ headers' = csv_file[1]
                /\ valid_rows' = Tail(split.valid_rows)
                /\ invalid_rows' = split.invalid_rows
                /\ columns' = create_columns(csv_file[1],
                                             Tail(split.valid_rows))
    /\ UNCHANGED <<csv_file, calls>>

\* Data.clean, lines 227-231
Clean ==
    /\ pc = "ready"
    /\ Len(calls) < MaxCalls
    /\ columns' = [i \in 1..Len(columns) |->
                     [columns[i] EXCEPT
                        !.values = drop_greater_than(change_misc_values(@))]]
    /\ calls' = Append(calls, "clean")
    /\ err' = "none"
    /\ UNCHANGED <<csv_file, pc, raw_data, headers, valid_rows, invalid_rows>>

\* Data.analyse, lines 233-245
Analyse ==
    /\ pc = "ready"
    /\ Len(calls) < MaxCalls
    /\ \E r \in {AnalyseLoop(columns, 1)} :
           /\ columns' = r.columns
           /\ err' = r.exc
    /\ calls' = Append(calls, "analyse")
    /\ UNCHANGED <<csv_file, pc, raw_data, headers, valid_rows, invalid_rows>>

Next == Construct \/ Clean \/ Analyse

Spec == Init /\ [][Next]_vars

-----------------------------------------------------------------------------
(* Properties. *)

LastCall == IF calls = << >> THEN "none" ELSE calls[Len(calls)]

NumCalls(name) == Cardinality({i \in 1..Len(calls) : calls[i] = name})

\* the j-th smallest element of a finite set of integers
NthOf(S, j) == CHOOSE x \in S : Cardinality({y \in S : y < x}) = j - 1

\* seq lists, in increasing order of position, the cells of values at the
\* positions in P
IsSubsequenceAt(seq, values, P) ==
    /\ Len(seq) = Cardinality(P)
    /\ \A j \in 1..Len(seq) : seq[j] = values[NthOf(P, j)]

\* analyse has run exactly once on the object and was the last call
AnalysedOnce == pc = "ready" /\ NumCalls("analyse") = 1 /\ LastCall = "analyse"

\* the loop of the last analyse reached this column of a file with data rows
Reached(col) == col.most_common # << >>

(* C1 *)
\* 'optional digits, a decimal point, one or more digits'
StatedFloat(s) ==
    \E p \in 1..Len(s) :
        /\ s[p] = "."
        /\ AllDigits(s, 1, p - 1)
        /\ p < Len(s)
        /\ AllDigits(s, p + 1, Len(s))

\* 'one or more digits with no sign, no decimal point and no leading zero
\* unless the value is a single digit'
StatedInt(s) ==
    /\ Len(s) >= 1
    /\ AllDigits(s, 1, Len(s))
    /\ (Len(s) = 1 \/ s[1] # "0")

StatedType(col) ==
    LET n == Len(col.values)
        floats == Cardinality({i \in 1..n : StatedFloat(col.values[i])})
        ints   == Cardinality({i \in 1..n : StatedInt(col.values[i])})
    IN  IF 10 * floats >= 9 * n THEN "Float"
        ELSE IF 10 * ints >= 9 * n THEN "Integer"
        ELSE IF Len(col.most_common) <= 2
             THEN IF lower(col.most_common[1][1]) \in
                        { <<"t", "r", "u", "e">>, <<"f", "a", "l", "s", "e">> }
                  THEN "Bool" ELSE ""
        ELSE IF Len(col.most_common) < 10 THEN "Enum"
        ELSE "String"

\* C1: after the first analyse of a Data object, every column the loop
\* reached and did not find empty has the type of the stated decision: Float
\* if at least 90% of all values are 'digits, point, digits', else Integer if
\* at least 90% are digit strings without a leading zero (a single digit,
\* 0 included, counts), else Bool or unclassified for at most 2 most-common
\* entries, else Enum below 10 entries, else String.
C1_TypeIsStatedDecision ==
    AnalysedOnce =>
        \A i \in 1..Len(columns) :
            (Reached(columns[i]) /\ ~ columns[i].empty) =>
                columns[i].type = StatedType(columns[i])

(* C2 *)
ValidPositions ==
    {i \in 2..Len(raw_data) : Len(raw_data[i]) = Len(raw_data[1])}

\* C2: once a Data object exists, valid_rows is exactly the data rows whose
\* field count equals the header's, invalid_rows is exactly the other data
\* rows, each with its position, no data row is in both or in neither, and
\* the two lengths add up to len(raw_data) - 1.
C2_RowPartition ==
    pc = "ready" =>
        /\ IsSubsequenceAt(valid_rows, raw_data, ValidPositions)
        /\ {invalid_rows[j][1] : j \in 1..Len(invalid_rows)}
               = (2..Len(raw_data)) \ ValidPositions
        /\ \A j \in 1..Len(invalid_rows) :
               /\ invalid_rows[j][2] = raw_data[invalid_rows[j][1]]
               /\ \A k \in 1..(j - 1) : invalid_rows[k][1] < invalid_rows[j][1]
        /\ Len(valid_rows) + Len(invalid_rows) = Len(raw_data) - 1

\* a file with a data row of the header's width and a longer data row has
\* been read
C2_Witness ==
    /\ pc = "ready"
    /\ valid_rows # << >>
    /\ \E j \in 1..Len(invalid_rows) : Len(invalid_rows[j][2]) > Len(headers)

(* C3 *)
RECURSIVE SumCounts(_)
SumCounts(mc) ==
    IF mc = << >> THEN 0 ELSE mc[1][2] + SumCounts(Tail(mc))

\* C3: most_common of every column has at most 15 entries, no value twice,
\* and counts that add up to at most len(values).
C3_MostCommonBounded ==
    \A i \in 1..Len(columns) :
        LET mc == columns[i].most_common
        IN  /\ Len(mc) <= 15
            /\ \A j, k \in 1..Len(mc) : j # k => mc[j][1] # mc[k][1]
            /\ SumCounts(mc) <= Len(columns[i].values)

\* define_most_common has run on a column of more than 15 different values
C3_Witness ==
    \E i \in 1..Len(columns) :
        /\ Len(columns[i].most_common) = 15
        /\ Cardinality({columns[i].values[r] :
                           r \in 1..Len(columns[i].values)}) > 15
        /\ SumCounts(columns[i].most_common) < Len(columns[i].values)

(* C4 *)
\* C4: a call of clean never changes the length of a column's values, and a
\* call of clean right after a call of clean changes no value.
C4_CleanIdempotent ==
    [][ (pc = "ready" /\ calls' = Append(calls, "clean")) =>
            \A i \in 1..Len(columns) :
                /\ Len(columns'[i].values) = Len(columns[i].values)
                /\ LastCall = "clean" =>
                       columns'[i].values = columns[i].values ]_vars

\* clean has been called twice in a row on a column in which the first call
\* replaced a placeholder
C4_Witness ==
    /\ Len(calls) >= 2
    /\ calls[1] = "clean" /\ calls[2] = "clean"
    /\ \E i \in 1..Len(columns) : \E r \in 1..Len(columns[i].values) :
           /\ valid_rows[r][i] \in invalid_values
           /\ columns[i].values[r] = << >>

C6_CoercionFailureIsolated ==
    (pc = "ready" /\ LastCall = "analyse") =>
        \A i \in 1..Len(columns) :
            LET col == columns[i]
                bad == {r \in 1..Len(col.values) : eval(col.values[r]) # "none"}
            IN  (Reached(col) /\ ~ col.empty
                    /\ col.type \in {"Float", "Integer"} /\ bad # {}) =>
                /\ err = "none"
                /\ \A j \in 1..Len(columns) : Reached(columns[j])
                /\ col.analysis.cls = "NumericalAnalyser"
                /\ \A r \in bad :
                       /\ \A k \in 1..Len(col.analysis.sample) :
                              col.analysis.sample[k] # col.values[r]
                       /\ \E k \in 1..Len(col.outliers) :
                              col.outliers[k] = col.values[r]

(* C7 *)
\* C7: a column whose empty flag is set has no type and no analysis object.
C7_EmptyIsUntyped ==
    \A i \in 1..Len(columns) :
        columns[i].empty =>
            columns[i].type = "" /\ columns[i].analysis = NoAnalysis

(* C8 *)
ScenarioRun == csv_file = ScenarioSource /\ calls = << "clean", "analyse" >>

ScenarioScoreValues ==
    << <<"3", ".", "5">>, << >>, <<"4", ".", "2", "5">> >>

\* C8 as stated: after construct, clean, analyse on the scenario file the
\* score column holds 3.5, '', 4.25, is not Float, and is typed String.
C8_ScenarioScoreIsString ==
    ScenarioRun =>
        /\ columns[2].values = ScenarioScoreValues
        /\ columns[2].type # "Float"
        /\ columns[2].type = "String"

\* C8: after construct, clean, analyse on the scenario file the score column
\* holds 3.5, '', 4.25, is not Float since the missing value counts in the
\* denominator, and is typed Enum: it has 3 most-common entries.
C8_ScenarioScoreIsEnum ==
    ScenarioRun =>
        /\ columns[2].values = ScenarioScoreValues
        /\ columns[2].type # "Float"
        /\ Len(columns[2].most_common) = 3
        /\ columns[2].type = "Enum"

\* the scenario file has been constructed, cleaned and analysed, and the
\* score column is the second column
C8_Witness ==
    /\ ScenarioRun
    /\ err = "none"
    /\ columns[2].header = <<"s", "c", "o", "r", "e">>
    /\ valid_rows[2][2] = <<"-">>

(* C9 *)
\* C9: constructing from a file without rows fails with EmptyInputError and
\* gives no Data object.
C9_EmptyInputError ==
    (csv_file = << >> /\ pc # "new") =>
        pc = "failed" /\ err = "EmptyInputError"

(* C10 *)
\* C10: a call of analyse right after a call of analyse that completed
\* leaves most_common, empty, type and outliers of every column as they
\* were.
C10_AnalyseIdempotent ==
    [][ (/\ pc = "ready"
         /\ LastCall = "analyse"
         /\ err = "none"
         /\ calls' = Append(calls, "analyse")) =>
            \A i \in 1..Len(columns) :
                /\ columns'[i].most_common = columns[i].most_common
                /\ columns'[i].empty = columns[i].empty
                /\ columns'[i].type = columns[i].type
                /\ columns'[i].outliers = columns[i].outliers ]_vars

=============================================================================
